---- MODULE Spec2Model ----
(***************************************************************************)
(* bibtex2html.py: the BibTeX parsing, cross-reference resolution and      *)
(* record normalisation of main().                                         *)
(*                                                                         *)
(* A Python str is a sequence of one-character strings, a list is a        *)
(* sequence, and a dict is a function whose DOMAIN is its set of keys.     *)
(* Indices are 1-based; find/rfind return 0 where Python returns -1.       *)
(***************************************************************************)
EXTENDS Integers, Sequences, FiniteSets, TLC

VARIABLES bibfiles, pc, n, crossref, dictlist, dictlist_bkp, merged, err

vars == <<bibfiles, pc, n, crossref, dictlist, dictlist_bkp, merged, err>>

(***************************************************************************)
(* Characters                                                              *)
(***************************************************************************)
ascii_lowercase == <<"a","b","c","d","e","f","g","h","i","j","k","l","m","n","o","p","q","r","s","t","u","v","w","x","y","z">>

ascii_uppercase == <<"A","B","C","D","E","F","G","H","I","J","K","L","M","N","O","P","Q","R","S","T","U","V","W","X","Y","Z">>

digits == <<"0","1","2","3","4","5","6","7","8","9">>

Range(s) == {s[i] : i \in 1..Len(s)}

\* \s of the re module, restricted to the ASCII whitespace TLA+ can write
whitespace == {" ", "\t", "\n", "\r", "\f"}

lowercase_set == Range(ascii_lowercase)

uppercase_set == Range(ascii_uppercase)

digit_set == Range(digits)

to_lower == [i \in 1..26 |-> <<ascii_uppercase[i], ascii_lowercase[i]>>]

lower_of == [c \in uppercase_set |-> (CHOOSE p \in Range(to_lower) : p[1] = c)[2]]

upper_of == [c \in lowercase_set |-> (CHOOSE p \in Range(to_lower) : p[2] = c)[1]]

lower_char(c) == IF c \in uppercase_set THEN lower_of[c] ELSE c

upper_char(c) == IF c \in lowercase_set THEN upper_of[c] ELSE c

\* str.lower
lower(s) == [i \in 1..Len(s) |-> lower_char(s[i])]

\* str.upper
upper(s) == [i \in 1..Len(s) |-> upper_char(s[i])]

(***************************************************************************)
(* str methods                                                             *)
(***************************************************************************)
RECURSIVE lskip(_, _, _)
lskip(s, chars, i) ==
    IF i <= Len(s) /\ s[i] \in chars THEN lskip(s, chars, i + 1) ELSE i

RECURSIVE rskip(_, _, _)
rskip(s, chars, j) ==
    IF j >= 1 /\ s[j] \in chars THEN rskip(s, chars, j - 1) ELSE j

\* str.strip(chars)
strip(s, chars) ==
    LET i == lskip(s, chars, 1)
        j == rskip(s, chars, Len(s))
    IN  IF i > j THEN <<>> ELSE SubSeq(s, i, j)

\* the indices where sub starts in s
occurrences(s, sub) ==
    {i \in 1..(Len(s) - Len(sub) + 1) :
        s[i] = sub[1] /\ SubSeq(s, i, i + Len(sub) - 1) = sub}

\* str.find(sub): the first index where sub starts, 0 if none
find(s, sub) ==
    LET hits == occurrences(s, sub)
    IN  IF hits = {} THEN 0 ELSE CHOOSE i \in hits : \A j \in hits : i <= j

\* str.rfind(sub): the last index where sub starts, 0 if none
rfind(s, sub) ==
    LET hits == occurrences(s, sub)
    IN  IF hits = {} THEN 0 ELSE CHOOSE i \in hits : \A j \in hits : i >= j

\* str.partition(sep): <<before, sep, after>>, <<s, "", "">> if sep is absent
partition(s, sep) ==
    LET i == find(s, sep)
    IN  IF i = 0 THEN <<s, <<>>, <<>>>>
        ELSE <<SubSeq(s, 1, i - 1), sep, SubSeq(s, i + Len(sep), Len(s))>>

\* str.rpartition(sep): <<before, sep, after>>, <<"", "", s>> if sep is absent
rpartition(s, sep) ==
    LET i == rfind(s, sep)
    IN  IF i = 0 THEN <<<<>>, <<>>, s>>
        ELSE <<SubSeq(s, 1, i - 1), sep, SubSeq(s, i + Len(sep), Len(s))>>

\* str.split(sep)
RECURSIVE split(_, _)
split(s, sep) ==
    LET i == find(s, sep)
    IN  IF i = 0 THEN <<s>>
        ELSE <<SubSeq(s, 1, i - 1)>> \o split(SubSeq(s, i + Len(sep), Len(s)), sep)

\* str.replace(old, new)
RECURSIVE replace(_, _, _)
replace(s, old, new) ==
    LET i == find(s, old)
    IN  IF i = 0 THEN s
        ELSE SubSeq(s, 1, i - 1) \o new
             \o replace(SubSeq(s, i + Len(old), Len(s)), old, new)

(***************************************************************************)
(* re.sub patterns of the program                                          *)
(***************************************************************************)
\* re.sub(r"[^...]", " ", s) for a negated character class
sub_outside(s, allowed) ==
    [i \in 1..Len(s) |-> IF s[i] \in allowed THEN s[i] ELSE " "]

\* marks a character that a substitution removes (no character is "")
removed == ""

is_kept(c) == c # removed

\* re.sub(r"\s+", " ", s): the first character of a run of whitespace becomes
\* a space and the rest of the run goes
sub_spaces(s) ==
    SelectSeq([i \in 1..Len(s) |->
                  IF s[i] \notin whitespace THEN s[i]
                  ELSE IF i > 1 /\ s[i - 1] \in whitespace THEN removed
                  ELSE " "],
              is_kept)

\* re.sub(r"\s+:", ":", s): a run of whitespace that a colon follows goes
sub_space_colon(s) ==
    SelectSeq([i \in 1..Len(s) |->
                  LET j == lskip(s, whitespace, i)
                  IN  IF s[i] \in whitespace /\ j <= Len(s) /\ s[j] = ":"
                      THEN removed
                      ELSE s[i]],
              is_kept)

(***************************************************************************)
(* cleanup_author, cleanup_title                                           *)
(***************************************************************************)
\* the replacement table of cleanup_author, in the dict's insertion order
dictionary ==
    << <<<<"\\","\"","a">>, <<"&","a","u","m","l",";">>>>,   <<<<"\\","\"","A">>, <<"&","A","u","m","l",";">>>>,
       <<<<"\\","\"","e">>, <<"&","e","u","m","l",";">>>>,   <<<<"\\","\"","E">>, <<"&","E","u","m","l",";">>>>,
       <<<<"\\","\"","i">>, <<"&","i","u","m","l",";">>>>,   <<<<"\\","\"","I">>, <<"&","I","u","m","l",";">>>>,
       <<<<"\\","\"","o">>, <<"&","o","u","m","l",";">>>>,   <<<<"\\","\"","O">>, <<"&","O","u","m","l",";">>>>,
       <<<<"\\","\"","u">>, <<"&","u","u","m","l",";">>>>,   <<<<"\\","\"","U">>, <<"&","U","u","m","l",";">>>>,
       <<<<"\\","'","a">>, <<"&","a","a","c","u","t","e",";">>>>, <<<<"\\","'","A">>, <<"&","A","a","c","u","t","e",";">>>>,
       <<<<"\\","'","e">>, <<"&","e","a","c","u","t","e",";">>>>, <<<<"\\","'","i">>, <<"&","i","a","c","u","t","e",";">>>>,
       <<<<"\\","'","I">>, <<"&","I","a","c","u","t","e",";">>>>, <<<<"\\","'","E">>, <<"&","E","a","c","u","t","e",";">>>>,
       <<<<"\\","'","o">>, <<"&","o","a","c","u","t","e",";">>>>, <<<<"\\","'","O">>, <<"&","O","a","c","u","t","e",";">>>>,
       <<<<"\\","'","u">>, <<"&","u","a","c","u","t","e",";">>>>, <<<<"\\","'","U">>, <<"&","U","a","c","u","t","e",";">>>>,
       <<<<"\\","~","n">>, <<"&","n","t","i","l","d","e",";">>>>, <<<<"\\","~","N">>, <<"&","N","t","i","l","d","e",";">>>>,
       <<<<"\\","~","a">>, <<"&","a","t","i","l","d","e",";">>>>, <<<<"\\","~","A">>, <<"&","A","t","i","l","d","e",";">>>>,
       <<<<"\\","~","o">>, <<"&","o","t","i","l","d","e",";">>>>, <<<<"\\","~","O">>, <<"&","O","t","i","l","d","e",";">>>>,
       <<<<"\\","'","\\">>, <<>>>>,
       <<<<"{">>, <<>>>>,
       <<<<"}">>, <<>>>>,
       <<<<" ","A","n","d"," ">>, <<" ","a","n","d"," ">>>> >>

\* for k, v in dictionary.items(): s = s.replace(k, v)
\* (a replace of a key that does not occur leaves s as it is)
RECURSIVE replace_all(_, _)
replace_all(s, k) ==
    IF k > Len(dictionary) THEN s
    ELSE IF find(s, dictionary[k][1]) = 0 THEN replace_all(s, k + 1)
    ELSE replace_all(replace(s, dictionary[k][1], dictionary[k][2]), k + 1)

\* one author of the loop: after.strip() + " " + before.strip()
first_last(author) ==
    LET p == partition(author, <<",">>)
    IN  strip(p[3], whitespace) \o <<" ">> \o strip(p[1], whitespace)

\* the loop over authors: the pieces joined with ", "
RECURSIVE join_authors(_, _)
join_authors(authors, k) ==
    IF k > Len(authors) THEN <<>>
    ELSE (IF k > 1 THEN <<","," ">> ELSE <<>>)
         \o first_last(authors[k]) \o join_authors(authors, k + 1)

\* last_joiner without its comma
last_joiner_plain == <<" ","a","n","d"," ">>

\* the joiner put in place of the last comma when there are several authors
last_joiner == <<","," ","a","n","d"," ">>

cleanup_author(s0) ==
    LET s1 == strip(replace_all(s0, 1), whitespace)
        authors == split(s1, <<"a","n","d">>)
        s2 == join_authors(authors, 1)
    IN  IF Len(authors) > 1
        THEN LET p == rpartition(s2, <<",">>)
             IN  sub_spaces(p[1] \o last_joiner \o p[3])
        ELSE s2

title_chars ==
    lowercase_set \cup uppercase_set \cup digit_set
    \cup whitespace \cup {".", "(", ")", ":", "-"}

cleanup_title(s) ==
    sub_space_colon(sub_spaces(sub_outside(s, title_chars)))

(***************************************************************************)
(* dict operations                                                         *)
(***************************************************************************)
\* d[k] = v
setitem(d, k, v) == [x \in DOMAIN d \cup {k} |-> IF x = k THEN v ELSE d[x]]

\* del d[k] for every k of keys
delitems(d, keys) == [x \in DOMAIN d \ keys |-> d[x]]

\* a | b: the keys of b take b's value
union(a, b) ==
    [x \in DOMAIN a \cup DOMAIN b |-> IF x \in DOMAIN b THEN b[x] ELSE a[x]]

\* list.reverse
reverse(l) == [i \in 1..Len(l) |-> l[Len(l) + 1 - i]]

nonempty(s) == s # <<>>

(***************************************************************************)
(* extract_bibitem                                                         *)
(***************************************************************************)
\* "%%" opens a commented line
not_commented(s) == SubSeq(s, 1, IF Len(s) < 2 THEN Len(s) ELSE 2) # <<"%","%">>

\* data += s + "\n" for every kept line
RECURSIVE join_lines(_, _)
join_lines(datalist, k) ==
    IF k > Len(datalist) THEN <<>>
    ELSE datalist[k] \o <<"\n">> \o join_lines(datalist, k + 1)

\* the chunks between the separators @, the empty ones discarded
biblist_of(datalist) ==
    LET stripped == [i \in 1..Len(datalist) |-> strip(datalist[i], {" ", "\n", "\t"})]
        kept == SelectSeq(stripped, not_commented)
        data == join_lines(kept, 1)
    IN  SelectSeq(split(data, <<"@">>), nonempty)

\* the strings "key = value" of one chunk
keylist_of(chunk) ==
    LET p1 == partition(chunk, <<"{">>)
        type == p1[1]
        p2 == partition(p1[3], <<",">>)
        id == p2[1]
        s == rpartition(p2[3], <<"}">>)[1]
        keylist == <<<<"t","y","p","e"," ","="," ">> \o lower(type), <<"i","d"," ","="," ">> \o id>>
                   \o SelectSeq(split(s, <<"\n">>), nonempty)
    IN  [i \in 1..Len(keylist) |-> strip(keylist[i], {" ", ",", "\t", "\n"})]

key_of(s) == lower(strip(partition(s, <<"=">>)[1], {" ", ",", "\n", "\t", "{", "}"}))

\* value_of that leaves the quotation marks
value_of_quoted(s) == strip(partition(s, <<"=">>)[3], {" ", ",", "\n", "\t", "{", "}"})

value_of(s) == strip(partition(s, <<"=">>)[3], {" ", ",", "\n", "\t", "{", "}", "\""})

\* keydict[key] = value for every string of the list, in order
RECURSIVE keydict_of(_, _, _)
keydict_of(l, k, keydict) ==
    IF k > Len(l) THEN keydict
    ELSE keydict_of(l, k + 1, setitem(keydict, key_of(l[k]), value_of(l[k])))

\* listlist_of without listlist.reverse()
listlist_of_unreversed(biblist) == [i \in 1..Len(biblist) |-> keylist_of(biblist[i])]

listlist_of(biblist) == reverse([i \in 1..Len(biblist) |-> keylist_of(biblist[i])])

extract_bibitem(datalist) ==
    LET listlist == listlist_of(biblist_of(datalist))
    IN  [i \in 1..Len(listlist) |-> keydict_of(listlist[i], 1, <<>>)]

(***************************************************************************)
(* extract_crossref                                                        *)
(***************************************************************************)
\* the @string macros of a file
RECURSIVE strdict_of(_, _, _)
strdict_of(dl, k, strdict) ==
    IF k > Len(dl) THEN strdict
    ELSE IF <<"t","y","p","e">> \in DOMAIN dl[k] /\ dl[k][<<"t","y","p","e">>] = <<"s","t","r","i","n","g">>
         THEN strdict_of(dl, k + 1,
                  setitem(strdict, key_of(dl[k][<<"i","d">>]), value_of(dl[k][<<"i","d">>])))
         ELSE strdict_of(dl, k + 1, strdict)

\* k.upper() == title; two lower-cased names never share an upper-cased form,
\* so at most one macro matches and the iteration order does not matter
macro_matches(k, title) == upper(k) = title

booktitle_chars ==
    lowercase_set \cup uppercase_set \cup digit_set
    \cup whitespace \cup {".", "(", ")", "&"}

canonicalize_booktitle(title, strdict) ==
    LET hits == {k \in DOMAIN strdict : macro_matches(k, title)}
        t == IF hits = {} THEN title ELSE strdict[CHOOSE k \in hits : TRUE]
    IN  sub_spaces(sub_outside(t, booktitle_chars))

is_proceedings(d) == <<"t","y","p","e">> \in DOMAIN d /\ d[<<"t","y","p","e">>] = <<"p","r","o","c","e","e","d","i","n","g","s">>

\* d["title"] of a proceedings entry that has no title raises KeyError
raises_KeyError(d) == is_proceedings(d) /\ <<"t","i","t","l","e">> \notin DOMAIN d

\* the index of the first entry of the second loop that raises, 0 if none does
RECURSIVE first_KeyError(_, _)
first_KeyError(dl, k) ==
    IF k > Len(dl) THEN 0
    ELSE IF raises_KeyError(dl[k]) THEN k
    ELSE first_KeyError(dl, k + 1)

\* the record stored for a proceedings entry
crossref_record(d, strdict) ==
    delitems(setitem(d, <<"b","o","o","k","t","i","t","l","e">>, canonicalize_booktitle(d[<<"t","i","t","l","e">>], strdict)),
             {<<"t","i","t","l","e">>, <<"t","y","p","e">>, <<"i","d">>})

\* crossref_of that keeps the record stored first for an id
RECURSIVE crossref_of_keep_first(_, _, _, _)
crossref_of_keep_first(dl, strdict, k, table) ==
    IF k > Len(dl) THEN table
    ELSE IF is_proceedings(dl[k]) /\ dl[k][<<"i","d">>] \notin DOMAIN table
         THEN crossref_of_keep_first(dl, strdict, k + 1,
                  setitem(table, dl[k][<<"i","d">>], crossref_record(dl[k], strdict)))
         ELSE crossref_of_keep_first(dl, strdict, k + 1, table)

\* crossref[key] = d for every proceedings entry, in the order of the list
RECURSIVE crossref_of(_, _, _, _)
crossref_of(dl, strdict, k, table) ==
    IF k > Len(dl) THEN table
    ELSE IF is_proceedings(dl[k])
         THEN crossref_of(dl, strdict, k + 1,
                  setitem(table, dl[k][<<"i","d">>], crossref_record(dl[k], strdict)))
         ELSE crossref_of(dl, strdict, k + 1, table)

extract_crossref(dl) == crossref_of(dl, strdict_of(dl, 1, <<>>), 1, <<>>)

(***************************************************************************)
(* translate_bibtex_to_dictionary                                          *)
(***************************************************************************)
\* os.path.basename(bibfile).removesuffix(".bib")
cls_of(bibfile) ==
    LET base == rpartition(bibfile, <<"/">>)[3]
        k == Len(base) - 3
    IN  IF k >= 1 /\ SubSeq(base, k, Len(base)) = <<".","b","i","b">>
        THEN SubSeq(base, 1, k - 1)
        ELSE base

\* with_crossref with the operands of | swapped: the entry wins
with_crossref_entry_wins(d, table) ==
    IF <<"c","r","o","s","s","r","e","f">> \in DOMAIN d /\ d[<<"c","r","o","s","s","r","e","f">>] \in DOMAIN table
    THEN [x \in DOMAIN d \cup DOMAIN table[d[<<"c","r","o","s","s","r","e","f">>]] |->
             IF x \in DOMAIN d THEN d[x] ELSE table[d[<<"c","r","o","s","s","r","e","f">>]][x]]
    ELSE d

\* dlower | crossref[k] when the entry names a known crossref
with_crossref(d, table) ==
    IF <<"c","r","o","s","s","r","e","f">> \in DOMAIN d /\ d[<<"c","r","o","s","s","r","e","f">>] \in DOMAIN table
    THEN union(d, table[d[<<"c","r","o","s","s","r","e","f">>]])
    ELSE d

\* one entry of the first loop
dlower_of(d, table, cls) ==
    LET d1 == setitem(with_crossref(d, table), <<"c","l","a","s","s">>, cls)
    IN  IF <<"j","o","u","r","n","a","l">> \in DOMAIN d1 /\ <<"b","o","o","k","t","i","t","l","e">> \notin DOMAIN d1
        THEN setitem(d1, <<"b","o","o","k","t","i","t","l","e">>, d1[<<"j","o","u","r","n","a","l">>])
        ELSE d1

\* the three filters: the type, the two keys, the two non-empty values
is_article(d) == d[<<"t","y","p","e">>] \in {<<"i","n","p","r","o","c","e","e","d","i","n","g","s">>, <<"a","r","t","i","c","l","e">>}

has_author_title(d) == <<"a","u","t","h","o","r">> \in DOMAIN d /\ <<"t","i","t","l","e">> \in DOMAIN d

author_title_nonempty(d) == d[<<"a","u","t","h","o","r">>] # <<>> /\ d[<<"t","i","t","l","e">>] # <<>>

\* kept_of without the filter on the type
kept_of_any_type(dl) == SelectSeq(SelectSeq(dl, has_author_title), author_title_nonempty)

kept_of(dl) ==
    SelectSeq(SelectSeq(SelectSeq(dl, is_article), has_author_title),
              author_title_nonempty)

cleaned(d) ==
    setitem(setitem(d, <<"a","u","t","h","o","r">>, cleanup_author(d[<<"a","u","t","h","o","r">>])),
            <<"t","i","t","l","e">>, cleanup_title(d[<<"t","i","t","l","e">>]))

merged_of(dl, table, cls) == [i \in 1..Len(dl) |-> dlower_of(dl[i], table, cls)]

translate_bibtex_to_dictionary(dl, table, cls) ==
    LET kept == kept_of(merged_of(dl, table, cls))
    IN  [i \in 1..Len(kept) |-> cleaned(kept[i])]

(***************************************************************************)
(* main                                                                    *)
(***************************************************************************)
\* f.readlines() of the file at position k of sys.argv[1].split(",")
datalist_of(k) == bibfiles[k].datalist

\* crossref = crossref | extract_crossref(bibfile), for the next file of the
\* first loop; dictlist_bkp holds what extract_bibitem returned for the file
\* and err the index of the entry whose d["title"] raised (0: none)
ExtractCrossref ==
    /\ pc = "crossref"
    /\ LET dl == extract_bibitem(datalist_of(n + 1))
           e == first_KeyError(dl, 1)
       IN  /\ dictlist_bkp' = dl
           /\ err' = e
           /\ IF e # 0
              THEN pc' = "KeyError" /\ UNCHANGED <<n, crossref>>
              ELSE /\ crossref' = union(crossref, extract_crossref(dl))
                   /\ IF n + 1 = Len(bibfiles)
                      THEN pc' = "translate" /\ n' = 0
                      ELSE pc' = pc /\ n' = n + 1
    /\ UNCHANGED <<bibfiles, dictlist, merged>>

\* dictlist.extend(translate_bibtex_to_dictionary(bibfile, crossref)), for the
\* next file of the second loop; merged holds the list the first loop of
\* translate_bibtex_to_dictionary built, before the filters
Translate ==
    /\ pc = "translate"
    /\ LET dl == extract_bibitem(datalist_of(n + 1))
           cls == cls_of(bibfiles[n + 1].bibfile)
       IN  /\ dictlist_bkp' = dl
           /\ merged' = merged_of(dl, crossref, cls)
           /\ dictlist' = dictlist \o translate_bibtex_to_dictionary(dl, crossref, cls)
    /\ IF n + 1 = Len(bibfiles)
       THEN pc' = "print_result" /\ n' = n + 1
       ELSE pc' = pc /\ n' = n + 1
    /\ UNCHANGED <<bibfiles, crossref, err>>

Next == ExtractCrossref \/ Translate

(***************************************************************************)
(* Inputs: the files named on the command line.  A file is a list of       *)
(* lines as readlines() returns them.                                      *)
(***************************************************************************)
MaxFiles == 2

MaxEntries == 2

MaxAuthors == 3

MaxFields == 3

MaxLines == 3

Seqs(S, m) == UNION {[1..k -> S] : k \in 0..m}

RECURSIVE flatten(_)
flatten(blocks) ==
    IF blocks = <<>> THEN <<>> ELSE Head(blocks) \o flatten(Tail(blocks))

paths == <<<<"b","i","b","/","i","n","t","l",".","b","i","b">>, <<"m","i","s","c",".","b","i","b">>, <<"c","o","n","f",".","b","i","b">>, <<"b","i","b","/","o","l","d","/","j","r","n","l",".","b","i","b">>>>

path_of(k) == paths[k]

\* the entries es dealt to f files: file j holds entries cuts[j-1]+1 .. cuts[j]
files_of(es, f, cuts) ==
    LET lo(j) == IF j = 1 THEN 1 ELSE cuts[j - 1] + 1
        hi(j) == IF j = f THEN Len(es) ELSE cuts[j]
    IN  [j \in 1..f |->
            [bibfile |-> path_of(j), datalist |-> flatten(SubSeq(es, lo(j), hi(j)))]]

one_file(datalist) == <<[bibfile |-> path_of(1), datalist |-> datalist]>>

InitWith(files) ==
    /\ bibfiles = files
    /\ pc = "crossref"
    /\ n = 0
    /\ crossref = <<>>
    /\ dictlist = <<>>
    /\ dictlist_bkp = <<>>
    /\ merged = <<>>
    /\ err = 0

\* up to MaxEntries entries of Pool, in any order, dealt to up to MaxFiles files
InitFrom(Pool) ==
    \E es \in Seqs(Pool, MaxEntries) :
        \E f \in 1..MaxFiles :
            \E cuts \in [1..(f - 1) -> 0..Len(es)] :
                /\ \A j \in 1..(f - 2) : cuts[j] <= cuts[j + 1]
                /\ InitWith(files_of(es, f, cuts))

(***************************************************************************)
(* Spec: publication entries and a proceedings entry they refer to         *)
(***************************************************************************)
entry_k1 ==
    << <<"@","I","n","P","r","o","c","e","e","d","i","n","g","s","{","k","1",",","\n">>,
       <<" "," ","a","u","t","h","o","r"," ","="," ","{","D","o","e",","," ","A","l"," ","a","n","d"," ","R","o","e",","," ","B","o","}",",","\n">>,
       <<" "," ","t","i","t","l","e"," ","="," ","{","O","n"," ","{","X","}"," ",":"," ","y","}",",","\n">>,
       <<" "," ","y","e","a","r"," ","="," ","2","0","1","9",",","\n">>,
       <<" "," ","c","r","o","s","s","r","e","f"," ","="," ","{","P","1","}",",","\n">>,
       <<"}","\n">> >>

entry_k2 ==
    << <<"@","a","r","t","i","c","l","e","{","k","2",",","\n">>,
       <<" "," ","a","u","t","h","o","r"," ","="," ","{","}",",","\n">>,
       <<" "," ","t","i","t","l","e"," ","="," ","U",",","\n">>,
       <<" "," ","j","o","u","r","n","a","l"," ","="," ","J","\n">>,
       <<"}","\n">> >>

entry_k3 ==
    << <<"@","b","o","o","k","{","k","3",",","\n">>,
       <<" "," ","a","u","t","h","o","r"," ","="," ","{","M","o","e",","," ","D","i","}",",","\n">>,
       <<" "," ","t","i","t","l","e"," ","="," ","V",",","\n">>,
       <<"}","\n">> >>

entry_k4 ==
    << <<"@","A","R","T","I","C","L","E","{","k","4",",","\n">>,
       <<" "," ","a","u","t","h","o","r"," ","="," ","\"","P","o","e","\"",",","\n">>,
       <<" "," ","t","i","t","l","e"," ","="," ","W","-","2",",","\n">>,
       <<" "," ","j","o","u","r","n","a","l"," ","="," ","J",",","\n">>,
       <<"}","\n">> >>

entry_P1 ==
    << <<"@","p","r","o","c","e","e","d","i","n","g","s","{","P","1",",","\n">>,
       <<" "," ","t","i","t","l","e"," ","="," ","{","P","r","o","c","."," ","Y","}",",","\n">>,
       <<" "," ","y","e","a","r"," ","="," ","2","0","2","0",",","\n">>,
       <<" "," ","c","l","a","s","s"," ","="," ","t","o","p",",","\n">>,
       <<"}","\n">> >>

Entries == {entry_k1, entry_k2, entry_k3, entry_k4, entry_P1}

Init == InitFrom(Entries)

Spec == Init /\ [][Next]_vars

(***************************************************************************)
(* SpecCrossref: @string macros and proceedings entries, two of them with  *)
(* the same id, one of them without the comma after its id                 *)
(***************************************************************************)
entry_P1b ==
    << <<"@","p","r","o","c","e","e","d","i","n","g","s","{","P","1",",","\n">>,
       <<" "," ","t","i","t","l","e"," ","="," ","a","c","m",",","\n">>,
       <<" "," ","p","u","b","l","i","s","h","e","r"," ","="," ","Q","\n">>,
       <<"}","\n">> >>

entry_P2 == << <<"@","P","r","o","c","e","e","d","i","n","g","s","{","P","2",","," ","t","i","t","l","e"," ","="," ","{","A","C","M","}","}","\n">> >>

entry_P3 == << <<"@","p","r","o","c","e","e","d","i","n","g","s","{","P","3","}","\n">> >>

entry_acm == << <<"@","s","t","r","i","n","g","{","a","c","m"," ","="," ","\"","A","C","M"," ","C","o","n","f",".","\"","}","\n">> >>

CrossrefEntries == {entry_P1, entry_P1b, entry_P2, entry_P3, entry_acm}

InitCrossref == InitFrom(CrossrefEntries)

SpecCrossref == InitCrossref /\ [][Next]_vars

(***************************************************************************)
(* SpecAuthor: one article whose author field lists up to MaxAuthors       *)
(* names, each written "Last, First" or "First Last", separated by " and " *)
(***************************************************************************)
Names ==
    { [last |-> <<"D","o","e">>, first |-> <<"A","l">>, comma |-> TRUE],
      [last |-> <<"R","o","e">>, first |-> <<"B","o">>, comma |-> FALSE],
      [last |-> <<"P","o","e">>, first |-> <<"C","y"," ","D",".">>, comma |-> TRUE],
      [last |-> <<"L","a","n","d","a","u">>, first |-> <<"E","d">>, comma |-> TRUE] }

written(name) ==
    IF name.comma THEN name.last \o <<","," ">> \o name.first
    ELSE name.first \o <<" ">> \o name.last

RECURSIVE author_field(_, _)
author_field(names, k) ==
    IF k > Len(names) THEN <<>>
    ELSE (IF k > 1 THEN <<" ","a","n","d"," ">> ELSE <<>>)
         \o written(names[k]) \o author_field(names, k + 1)

author_file(names) ==
    one_file(<< <<"@","a","r","t","i","c","l","e","{","a","1",",","\n">>,
                <<" "," ","a","u","t","h","o","r"," ","="," ","{">> \o author_field(names, 1) \o <<"}",",","\n">>,
                <<" "," ","t","i","t","l","e"," ","="," ","T",",","\n">>,
                <<"}","\n">> >>)

AuthorLists == Seqs(Names, MaxAuthors) \ {<<>>}

InitAuthor == \E names \in AuthorLists : InitWith(author_file(names))

SpecAuthor == InitAuthor /\ [][Next]_vars

(***************************************************************************)
(* SpecFields: one file that is either a single @inproceedings chunk, its  *)
(* fields one to a line, or a few lines taken as they come                 *)
(***************************************************************************)
\* a field line with the key and the value it spells
Fields ==
    { [line |-> <<" "," ","A","u","t","h","o","r"," ","="," ","{","D","o","e",","," ","A","l","}",",","\n">>, key |-> <<"a","u","t","h","o","r">>, value |-> <<"D","o","e",","," ","A","l">>],
      [line |-> <<"a","u","t","h","o","r"," ","="," ","R","o","e","\n">>, key |-> <<"a","u","t","h","o","r">>, value |-> <<"R","o","e">>],
      [line |-> <<" "," ","t","i","t","l","e"," ","="," ","\"","T"," ","="," ","1","\"",",","\n">>, key |-> <<"t","i","t","l","e">>, value |-> <<"T"," ","="," ","1">>],
      [line |-> <<"T","Y","P","E"," ","="," ","{","P","o","s","t","e","r","}",",","\n">>, key |-> <<"t","y","p","e">>, value |-> <<"P","o","s","t","e","r">>] }

chunk_file(fs) ==
    one_file(<<<<"@","I","n","P","r","o","c","e","e","d","i","n","g","s","{","K","1",",","\n">>>> \o [i \in 1..Len(fs) |-> fs[i].line] \o <<<<"}","\n">>>>)

example_line ==
    <<"@","I","N","P","R","O","C","E","E","D","I","N","G","S","{","S","m","i","t","h","2","0",","," ","a","u","t","h","o","r"," ","="," ","{","S","m","i","t","h",","," ","J","o","h","n"," ","a","n","d"," ","D","o","e",","," ","J","a","n","e","}",","," ","t","i","t","l","e"," ","="," ","{","A"," ","{","S","t","u","d","y","}"," ","o","f"," ","X",".","}",","," ","y","e","a","r"," ","="," ","{","2","0","2","0","}",","," ","b","o","o","k","t","i","t","l","e"," ","="," ","{","P","r","o","c","."," ","Y","}","}","\n">>

FreeLines == {<<"p","l","a","i","n"," ","t","e","x","t","\n">>, <<"%","%"," ","n","o","t","e","\n">>, <<"\n">>, example_line}

InitFields ==
    \E chunk \in BOOLEAN :
        IF chunk
        THEN \E fs \in Seqs(Fields, MaxFields) : InitWith(chunk_file(fs))
        ELSE \E ls \in Seqs(FreeLines, MaxLines) : InitWith(one_file(ls))

SpecFields == InitFields /\ [][Next]_vars

(***************************************************************************)
(* Properties                                                              *)
(***************************************************************************)
\* the files translate_bibtex_to_dictionary has been run on so far
translated == IF pc \in {"translate", "print_result"} THEN n ELSE 0

\* extract_crossref has returned for every file
crossref_built == pc \in {"translate", "print_result"}

\* C1: every record of the list main hands to print_result has a type that is
\* inproceedings or article, and has an author and a title, neither of them the
\* empty string (after the crossref merge and the two cleanups).
C1_FilteringTotal ==
    \A i \in 1..Len(dictlist) :
        LET d == dictlist[i]
        IN  /\ <<"t","y","p","e">> \in DOMAIN d
            /\ d[<<"t","y","p","e">>] \in {<<"i","n","p","r","o","c","e","e","d","i","n","g","s">>, <<"a","r","t","i","c","l","e">>}
            /\ <<"a","u","t","h","o","r">> \in DOMAIN d
            /\ <<"t","i","t","l","e">> \in DOMAIN d
            /\ d[<<"a","u","t","h","o","r">>] # <<>>
            /\ d[<<"t","i","t","l","e">>] # <<>>

\* a finished run that kept a record of the last file and dropped another of
\* it, for its type or for its empty author
C1_Witness ==
    /\ pc = "print_result"
    /\ \E i \in 1..Len(dictlist) : dictlist[i][<<"c","l","a","s","s">>] = cls_of(bibfiles[n].bibfile)
    /\ \E i \in 1..Len(merged) :
        \/ merged[i][<<"t","y","p","e">>] \notin {<<"i","n","p","r","o","c","e","e","d","i","n","g","s">>, <<"a","r","t","i","c","l","e">>}
        \/ (<<"a","u","t","h","o","r">> \in DOMAIN merged[i] /\ merged[i][<<"a","u","t","h","o","r">>] = <<>>)

\* the entry d names a proceedings entry the crossref table holds
resolved(d) == <<"c","r","o","s","s","r","e","f">> \in DOMAIN d /\ d[<<"c","r","o","s","s","r","e","f">>] \in DOMAIN crossref

\* C2 as stated: after the first loop of translate_bibtex_to_dictionary, an
\* entry whose crossref the table holds is its own map overlaid with the
\* crossref record: every key of the crossref record has the crossref's value,
\* every other key the entry's, and an entry without its own booktitle has the
\* crossref record's booktitle.
C2_Overlay ==
    \A i \in 1..Len(merged) :
        LET d == dictlist_bkp[i]
            r == merged[i]
        IN  resolved(d) =>
                LET c == crossref[d[<<"c","r","o","s","s","r","e","f">>]]
                IN  /\ \A k \in DOMAIN c : k \in DOMAIN r /\ r[k] = c[k]
                    /\ \A k \in DOMAIN d \ DOMAIN c : k \in DOMAIN r /\ r[k] = d[k]
                    /\ <<"b","o","o","k","t","i","t","l","e">> \notin DOMAIN d => r[<<"b","o","o","k","t","i","t","l","e">>] = c[<<"b","o","o","k","t","i","t","l","e">>]

\* C2 amended: the same for every key but class; class is the base name of
\* the file the entry was read from, whatever the entry and the crossref
\* record say.
C2_OverlayButClass ==
    \A i \in 1..Len(merged) :
        LET d == dictlist_bkp[i]
            r == merged[i]
        IN  resolved(d) =>
                LET c == crossref[d[<<"c","r","o","s","s","r","e","f">>]]
                IN  /\ \A k \in DOMAIN c \ {<<"c","l","a","s","s">>} : k \in DOMAIN r /\ r[k] = c[k]
                    /\ \A k \in DOMAIN d \ (DOMAIN c \cup {<<"c","l","a","s","s">>}) :
                           k \in DOMAIN r /\ r[k] = d[k]
                    /\ <<"b","o","o","k","t","i","t","l","e">> \notin DOMAIN d => r[<<"b","o","o","k","t","i","t","l","e">>] = c[<<"b","o","o","k","t","i","t","l","e">>]
                    /\ r[<<"c","l","a","s","s">>] = cls_of(bibfiles[n].bibfile)

\* an entry without booktitle whose crossref is defined in another file and
\* whose year collides with the crossref record's
C2_Witness ==
    /\ translated >= 1
    /\ \A j \in 1..Len(dictlist_bkp) : ~is_proceedings(dictlist_bkp[j])
    /\ \E i \in 1..Len(merged) :
           /\ resolved(dictlist_bkp[i])
           /\ <<"b","o","o","k","t","i","t","l","e">> \notin DOMAIN dictlist_bkp[i]
           /\ <<"y","e","a","r">> \in DOMAIN dictlist_bkp[i]
           /\ <<"y","e","a","r">> \in DOMAIN crossref[dictlist_bkp[i][<<"c","r","o","s","s","r","e","f">>]]
           /\ dictlist_bkp[i][<<"y","e","a","r">>] # crossref[dictlist_bkp[i][<<"c","r","o","s","s","r","e","f">>]][<<"y","e","a","r">>]

is_header(line) == line # <<>> /\ line[1] = "@"

\* the ids of the entries of a file, in the order the file gives them
ids_in_file_order(datalist) ==
    LET heads == SelectSeq(datalist, is_header)
    IN  [i \in 1..Len(heads) |-> partition(partition(heads[i], <<"{">>)[3], <<",">>)[1]]

backwards(l) == [i \in 1..Len(l) |-> l[Len(l) - i + 1]]

ids_of(l) == [i \in 1..Len(l) |-> l[i][<<"i","d">>]]

RECURSIVE is_subseq(_, _)
is_subseq(a, b) ==
    IF a = <<>> THEN TRUE
    ELSE IF b = <<>> THEN FALSE
    ELSE IF Head(a) = Head(b) THEN is_subseq(Tail(a), Tail(b))
    ELSE is_subseq(a, Tail(b))

\* the records of the final list that were read from file j
records_of(j) ==
    LET from_j(d) == d[<<"c","l","a","s","s">>] = cls_of(bibfiles[j].bibfile)
    IN  SelectSeq(dictlist, from_j)

\* C10: the final list is the lists of the files translated so far, in the
\* order of the command line, and the records of one file are a subsequence
\* of the file's entries read backwards.
C10_Order ==
    /\ dictlist = flatten([j \in 1..translated |-> records_of(j)])
    /\ \A j \in 1..translated :
           is_subseq(ids_of(records_of(j)),
                     backwards(ids_in_file_order(bibfiles[j].datalist)))

\* a finished run whose list holds two different records of one file
C10_Witness ==
    /\ pc = "print_result"
    /\ \E i \in 1..Len(dictlist) : \E j \in (i + 1)..Len(dictlist) :
           /\ dictlist[i][<<"c","l","a","s","s">>] = dictlist[j][<<"c","l","a","s","s">>]
           /\ dictlist[i][<<"i","d">>] # dictlist[j][<<"i","d">>]

\* the entries of file j as extract_bibitem parses them, in the order of the file
file_entries(j) ==
    LET biblist == biblist_of(bibfiles[j].datalist)
    IN  [i \in 1..Len(biblist) |-> keydict_of(keylist_of(biblist[i]), 1, <<>>)]

\* the @string macros of file j
macros_of(j) == strdict_of(extract_bibitem(bibfiles[j].datalist), 1, <<>>)

\* the places in file j of the proceedings entries with id key
defined_at(j, key) ==
    {i \in 1..Len(file_entries(j)) :
        is_proceedings(file_entries(j)[i]) /\ file_entries(j)[i][<<"i","d">>] = key}

defining_files(key) == {j \in 1..Len(bibfiles) : defined_at(j, key) # {}}

proceedings_ids ==
    UNION {{file_entries(j)[i][<<"i","d">>] :
               i \in {i \in 1..Len(file_entries(j)) : is_proceedings(file_entries(j)[i])}} :
           j \in 1..Len(bibfiles)}

Max(S) == CHOOSE x \in S : \A y \in S : x >= y

Min(S) == CHOOSE x \in S : \A y \in S : x <= y

record_at(j, i) == crossref_record(file_entries(j)[i], macros_of(j))

\* C8 as stated: once the crossref table is built, the record of an id that
\* several proceedings entries carry is that of the later occurrence: the
\* last one of the last file that has one.
C8_LaterOccurrence ==
    crossref_built =>
        /\ DOMAIN crossref = proceedings_ids
        /\ \A key \in DOMAIN crossref :
               LET j == Max(defining_files(key))
               IN  crossref[key] = record_at(j, Max(defined_at(j, key)))

\* C8 amended: the last file that has the id decides, and inside that file
\* the occurrence that comes first (extract_bibitem hands the entries over
\* backwards, so the first of the file is stored last).
C8_FirstOfLastFile ==
    crossref_built =>
        /\ DOMAIN crossref = proceedings_ids
        /\ \A key \in DOMAIN crossref :
               LET j == Max(defining_files(key))
               IN  crossref[key] = record_at(j, Min(defined_at(j, key)))

\* the table is built from a file that holds two different proceedings
\* entries with one id
C8_Witness ==
    /\ crossref_built
    /\ \E j \in 1..Len(bibfiles) : \E key \in proceedings_ids :
           \E i1 \in defined_at(j, key) : \E i2 \in defined_at(j, key) :
               i1 < i2 /\ record_at(j, i1) # record_at(j, i2)

\* the files extract_crossref has returned for
crossref_done == IF crossref_built THEN Len(bibfiles) ELSE n

\* C6 as stated: a proceedings entry whose title is the name of an @string
\* macro of its file, letter case ignored, is stored with the macro's text
\* (whitelist-filtered, whitespace collapsed) as its booktitle.  Stated for
\* an id that a single entry carries.
C6_MacroIgnoringCase ==
    \A j \in 1..crossref_done : \A i \in 1..Len(file_entries(j)) :
        LET d == file_entries(j)[i]
        IN  (/\ is_proceedings(d)
             /\ defining_files(d[<<"i","d">>]) = {j}
             /\ defined_at(j, d[<<"i","d">>]) = {i})
            => \A m \in DOMAIN macros_of(j) :
                   lower(m) = lower(d[<<"t","i","t","l","e">>]) =>
                       crossref[d[<<"i","d">>]][<<"b","o","o","k","t","i","t","l","e">>]
                           = sub_spaces(sub_outside(macros_of(j)[m], booktitle_chars))

\* a chunk with no "{", or with no "," after the id
malformed(chunk) ==
    find(chunk, <<"{">>) = 0 \/ find(partition(chunk, <<"{">>)[3], <<",">>) = 0

\* the chunk of the file being read whose entry raised
raising_chunk ==
    LET biblist == biblist_of(datalist_of(n + 1))
    IN  biblist[Len(biblist) + 1 - err]

\* C7 as stated: a malformed entry of any type never aborts the run, is
\* parsed as a map that holds type and id only, and is in no final record.
C7_MalformedDegrades ==
    /\ pc = "KeyError" => ~malformed(raising_chunk)
    /\ \A j \in 1..Len(bibfiles) :
           LET biblist == biblist_of(bibfiles[j].datalist)
           IN  \A i \in 1..Len(biblist) :
                   malformed(biblist[i]) =>
                       /\ DOMAIN file_entries(j)[i] = {<<"t","y","p","e">>, <<"i","d">>}
                       /\ \A r \in 1..Len(dictlist) :
                              dictlist[r][<<"i","d">>] # file_entries(j)[i][<<"i","d">>]

\* the names the author field of the input was written from
names_in == CHOOSE names \in AuthorLists : bibfiles = author_file(names)

\* no name of the list holds the letters "and", at which the field is split
plain_names(names) == \A k \in 1..Len(names) : find(written(names[k]), <<"a","n","d">>) = 0

first_then_last(name) == name.first \o <<" ">> \o name.last

\* the names as First Last, ", " between them and joiner before the last
RECURSIVE joined(_, _, _)
joined(names, k, joiner) ==
    IF k > Len(names) THEN <<>>
    ELSE (IF k = 1 THEN <<>> ELSE IF k = Len(names) THEN joiner ELSE <<","," ">>)
         \o first_then_last(names[k]) \o joined(names, k + 1, joiner)

\* the one record of a finished run
the_author == dictlist[1][<<"a","u","t","h","o","r">>]

parsed == pc # "crossref"

\* the keys of all but the last n lines of fs
RECURSIVE later_keys(_, _)
later_keys(fs, i) ==
    IF i >= Len(fs) THEN {} ELSE {fs[i + 1].key} \cup later_keys(fs, i + 1)

all_keys(fs) == {fs[i].key : i \in 1..Len(fs)}

\* C4 as stated: every key = value line of a well-formed @inproceedings chunk
\* is in the map, its key lower-cased and trimmed, its value trimmed; the map
\* holds type, the lower-cased entry type, and id.
C4_EveryLine ==
    \A fs \in Seqs(Fields, MaxFields) :
        (parsed /\ bibfiles = chunk_file(fs)) =>
            /\ Len(dictlist_bkp) = 1
            /\ \A i \in 1..Len(fs) :
                   /\ fs[i].key \in DOMAIN dictlist_bkp[1]
                   /\ dictlist_bkp[1][fs[i].key] = fs[i].value
            /\ {<<"t","y","p","e">>, <<"i","d">>} \subseteq DOMAIN dictlist_bkp[1]
            /\ dictlist_bkp[1][<<"t","y","p","e">>] = <<"i","n","p","r","o","c","e","e","d","i","n","g","s">>

\* C4 amended: the same for every line whose key no later line repeats (the
\* last line of a key wins); type is the lower-cased entry type and id the
\* entry's id unless a line of the body assigns that key.
C4_LastLineOfKey ==
    \A fs \in Seqs(Fields, MaxFields) :
        (parsed /\ bibfiles = chunk_file(fs)) =>
            /\ Len(dictlist_bkp) = 1
            /\ \A i \in 1..Len(fs) :
                   /\ fs[i].key \in DOMAIN dictlist_bkp[1]
                   /\ fs[i].key \notin later_keys(fs, i)
                          => dictlist_bkp[1][fs[i].key] = fs[i].value
            /\ {<<"t","y","p","e">>, <<"i","d">>} \subseteq DOMAIN dictlist_bkp[1]
            /\ <<"t","y","p","e">> \notin all_keys(fs) => dictlist_bkp[1][<<"t","y","p","e">>] = <<"i","n","p","r","o","c","e","e","d","i","n","g","s">>
            /\ <<"i","d">> \notin all_keys(fs) => dictlist_bkp[1][<<"i","d">>] = <<"K","1">>

\* a parsed chunk two of whose lines give one key two values, and one line a
\* quoted value
C4_Witness ==
    /\ parsed
    /\ \E fs \in Seqs(Fields, MaxFields) :
           /\ bibfiles = chunk_file(fs)
           /\ \E i \in 1..Len(fs) : \E j \in (i + 1)..Len(fs) :
                  fs[i].key = fs[j].key /\ fs[i].value # fs[j].value
           /\ \E i \in 1..Len(fs) : find(fs[i].line, <<"\"">>) # 0

\* C5 as stated: the entry written on one line, its pairs separated by
\* commas, gives exactly one record, with the author, title, year, booktitle
\* and type of the example.
C5_OneLineEntry ==
    (pc = "print_result" /\ bibfiles = one_file(<<example_line>>)) =>
        /\ Len(dictlist) = 1
        /\ {<<"a","u","t","h","o","r">>, <<"t","i","t","l","e">>, <<"y","e","a","r">>, <<"b","o","o","k","t","i","t","l","e">>, <<"t","y","p","e">>} \subseteq DOMAIN dictlist[1]
        /\ dictlist[1][<<"a","u","t","h","o","r">>] = <<"J","o","h","n"," ","S","m","i","t","h",","," ","a","n","d"," ","J","a","n","e"," ","D","o","e">>
        /\ dictlist[1][<<"t","i","t","l","e">>] = <<"A"," ","S","t","u","d","y"," ","o","f"," ","X",".">>
        /\ dictlist[1][<<"y","e","a","r">>] = <<"2","0","2","0">>
        /\ dictlist[1][<<"b","o","o","k","t","i","t","l","e">>] = <<"P","r","o","c","."," ","Y">>
        /\ dictlist[1][<<"t","y","p","e">>] = <<"i","n","p","r","o","c","e","e","d","i","n","g","s">>

no_at(datalist) == \A i \in 1..Len(datalist) : find(datalist[i], <<"@">>) = 0

\* C9 as stated: lines that hold no @ give no chunk and no map, and nothing
\* is raised.
C9_NoAtNoChunk ==
    (parsed /\ no_at(datalist_of(1))) =>
        /\ pc # "KeyError"
        /\ dictlist_bkp = <<>>

====
